---- MODULE Spec2Model ----
(***************************************************************************)
(* A model of matrix-media-repo's media ingestion (StoreMedia, IsTooLarge), *)
(* its remote download coalescing (downloadRemoteMedia) and the fetcher of *)
(* the URL previewer (doHttpGet and its dial hook, downloadRawContent,     *)
(* downloadHtmlContent).                                                   *)
(***************************************************************************)
EXTENDS Integers, Sequences, FiniteSets, TLC

(***************************************************************************)
(* Bounds                                                                  *)
(***************************************************************************)
\* Number of StoreMedia calls that may run (and interleave).
MaxCalls == 2

Procs == 1..MaxCalls

\* Number of callers of downloadRemoteMedia.
MaxCallers == 3

Callers == 1..MaxCallers

\* Number of redirects the HTTP client follows in the model (Go's follows 10).
MaxRedirects == 2

\* The width, in bits, of the model's int64: strconv.ParseInt fails for a
\* number out of its range.
IntBits == 8

(***************************************************************************)
(* Inputs of StoreMedia                                                    *)
(***************************************************************************)
\* Byte streams handed to StoreMedia.
Blobs == {<<0>>, <<0, 1>>}
Hosts == {"a.org", "b.org"}
\* Media IDs are strings, written as sequences; the empty one asks StoreMedia
\* to generate an ID.
EmptyId == <<>>
SuppliedIds == {EmptyId, <<"m", 1>>}
\* The (contentType, filename, userId) of an upload.  StoreMedia only copies
\* and logs them, so the interleaved calls all carry the first one, while the
\* calls made one after the other carry either.
OneUpload == {<<"image/png", "f.png", "@u:a.org">>}
Uploads == OneUpload \cup {<<"image/gif", "g.png", "@v:b.org">>}

\* What the disk holds where there is no file; no byte string is negative.
NoFile == <<-1>>
\* Go's nil *types.Media (and the locals of a call not yet made).
NoMedia == [nil |-> TRUE]

VARIABLES
    store,      \* the media table, in insertion (lookup) order
    disk,       \* file location -> contents, or NoFile
    clock,      \* util.NowMillis()
    pc,         \* each StoreMedia call's position
    req,        \* each call's arguments (with mediaId, isGeneratedId resolved),
                \* and, as history, the table as it was when the call was made
    media,      \* each call's local `media`
    ret,        \* each call's return value
    raced       \* history: the pairs of calls that were both between their
                \* lookup and their Insert at the same time

VARIABLES
    registry,   \* remote key -> the callers waiting on its in-flight download
    fetching,   \* remote key -> the number of fetches now under way
    hpc,        \* each downloadRemoteMedia call's position
    hkey,       \* each call's (server, mediaId)
    hchan,      \* each call's result channel
    hret,       \* each call's return value
    started,    \* history: remote key -> the number of fetches started
    outcomes,   \* history: remote key -> the results of its finished fetches
    joined      \* history: which fetch of its key each call waits for

VARIABLES
    dpc,        \* doHttpGet's position
    unsafeCerts,\* ctx.Config.UrlPreviews.UnsafeCertificates
    durl,       \* urlPayload.ParsedUrl
    dhop,       \* the URL of the request the client is making now
    redirects,  \* the number of redirects followed
    conns,      \* history: the sockets connected
    dres        \* what doHttpGet returned

VARIABLES
    hcall       \* the last call of doHttpGet's dial hook, made on its own

VARIABLES
    ppc,        \* downloadHtmlContent's position
    praw,       \* its call of downloadRawContent: the arguments and the result
    phtml       \* what downloadHtmlContent returned

VARIABLES
    tcall       \* the last call of IsTooLarge

hookVars == <<hcall>>
previewVars == <<ppc, praw, phtml>>
uploadVars == <<tcall>>
unitVars == <<hookVars, previewVars, uploadVars>>
storeVars == <<store, disk, clock, pc, req, media, ret, raced>>
handlerVars == <<registry, fetching, hpc, hkey, hchan, hret, started, outcomes, joined>>
dialVars == <<dpc, unsafeCerts, durl, dhop, redirects, conns, dres>>
vars == <<storeVars, handlerVars, dialVars, unitVars>>

(***************************************************************************)
(* Blob persistence and the media table                                    *)
(***************************************************************************)
\* storage.PersistFile writes the stream to a fresh location of its own.
PersistFile(p) == <<"media", p>>

\* Where the file of a record stored by an earlier run of the server lives.
SeedLocation == <<"media", 0>>

\* Where a second copy of those bytes lives, when two ingestions of them raced.
RacedLocation == <<"media", -1>>

Locations == {PersistFile(p) : p \in Procs} \cup {SeedLocation, RacedLocation}

\* The SHA-256 digest of a byte string (taken to be collision free).
Sha256(b) == <<"sha256", b>>

\* storage.GetFileHash: the SHA-256 of the file's contents.
GetFileHash(d, l) == Sha256(d[l])

\* util.FileSize
FileSize(d, l) == Len(d[l])

\* util.FileExists
FileExists(d, l) == d[l] # NoFile

\* os.Remove
Remove(d, l) == [d EXCEPT ![l] = NoFile]

\* os.Rename: replaces the destination; fails, changing nothing, without a source.
Rename(d, from, to) ==
    IF d[from] = NoFile \/ from = to THEN d
    ELSE [d EXCEPT ![to] = d[from], ![from] = NoFile]

\* MediaStore.GetByHash
GetByHash(s, h) == SelectSeq(s, LAMBDA r : r.Sha256Hash = h)

\* The table's unique constraint on (origin, media_id).
HasKey(s, origin, mediaId) ==
    \E i \in 1..Len(s) : s[i].Origin = origin /\ s[i].MediaId = mediaId

\* MediaStore.Insert of a row the constraint admits.
Insert(s, m) == Append(s, m)

\* generateMediaId: a random 64 character string, never one seen before.
generateMediaId(p) == <<"g", p>>


\* A record an earlier run of the server left in the table, with its file.
SeedContents == <<0>>
SeedRecord ==
    [Origin |-> "a.org", MediaId |-> <<"m", 1>>, UploadName |-> "f.png",
     ContentType |-> "image/png", UserId |-> "@u:a.org",
     Sha256Hash |-> Sha256(SeedContents), SizeBytes |-> Len(SeedContents),
     Location |-> SeedLocation, CreationTs |-> 0]

\* More records of the same bytes that earlier runs may have left: one under
\* another origin, over the same file; and one under the same origin and
\* another media ID, which raced with the first and kept a file of its own.
SeedRecordOtherOrigin ==
    [SeedRecord EXCEPT !.Origin = "b.org", !.MediaId = <<"m", 2>>,
                       !.UploadName = "h.jpg", !.ContentType = "image/jpeg",
                       !.UserId = "@w:b.org", !.CreationTs = -1]
SeedRecordRaced ==
    [SeedRecord EXCEPT !.MediaId = <<"m", 2>>,
                       !.UploadName = "h.jpg", !.ContentType = "image/jpeg",
                       !.UserId = "@w:b.org", !.CreationTs = -1,
                       !.Location = RacedLocation]

Ok(m) == [media |-> m, err |-> ""]
Err(e) == [media |-> NoMedia, err |-> e]

\* The (server, mediaId) pairs asked of the resource handler.
RemoteKeys == {<<"b.org", "m1">>, <<"b.org", "m2">>}

\* What a remote fetch can end with: the stored media, or an error (a failed
\* or timed out download).
FetchResults == {[media |-> "media", err |-> ""], [media |-> "nil", err |-> "download failed"]}

NoEntry == [present |-> FALSE, waiters |-> {}]
NoResult == [media |-> "nil", err |-> "none yet"]

InitHandler ==
    /\ registry = [k \in RemoteKeys |-> NoEntry]
    /\ fetching = [k \in RemoteKeys |-> 0]
    /\ hpc = [c \in Callers |-> "idle"]
    /\ hkey = [c \in Callers |-> <<"", "">>]
    /\ hchan = [c \in Callers |-> NoResult]
    /\ hret = [c \in Callers |-> NoResult]
    /\ started = [k \in RemoteKeys |-> 0]
    /\ outcomes = [k \in RemoteKeys |-> <<>>]
    /\ joined = [c \in Callers |-> 0]

\* The table is empty, or holds the record of an earlier run and its file.
InitStore ==
    /\ \/ /\ store = <<>>
          /\ disk = [l \in Locations |-> NoFile]
       \/ /\ store = <<SeedRecord>>
          /\ disk = [l \in Locations |->
                        IF l = SeedLocation THEN SeedContents ELSE NoFile]
    /\ clock = 1
    /\ raced = {}
    /\ pc = [p \in Procs |-> "idle"]
    /\ req = [p \in Procs |-> NoMedia]
    /\ media = [p \in Procs |-> NoMedia]
    /\ ret = [p \in Procs |-> NoMedia]

\* A table that holds one or two records of the same bytes, in either order,
\* and their files.
DuplicateTables ==
    {<<SeedRecord>>, <<SeedRecord, SeedRecordOtherOrigin>>,
     <<SeedRecord, SeedRecordRaced>>, <<SeedRecordRaced, SeedRecord>>}

InitStoreDup ==
    /\ store \in DuplicateTables
    /\ disk = [l \in Locations |->
                  IF \E i \in 1..Len(store) : store[i].Location = l
                  THEN SeedContents ELSE NoFile]
    /\ clock = 1
    /\ raced = {}
    /\ pc = [p \in Procs |-> "idle"]
    /\ req = [p \in Procs |-> NoMedia]
    /\ media = [p \in Procs |-> NoMedia]
    /\ ret = [p \in Procs |-> NoMedia]

NoUrl == [Scheme |-> "", Host |-> <<>>]

InitDial ==
    /\ dpc = "idle"
    /\ unsafeCerts = FALSE
    /\ durl = NoUrl
    /\ dhop = NoUrl
    /\ redirects = 0
    /\ conns = {}
    /\ dres = ""

NoCall == [made |-> FALSE]

InitHook == hcall = NoCall

InitPreview ==
    /\ ppc = "idle"
    /\ praw = NoCall
    /\ phtml = NoCall

InitUpload == tcall = NoCall

Init ==
    InitStore /\ InitHandler /\ InitDial /\ InitHook /\ InitPreview /\ InitUpload

InitDup ==
    InitStoreDup /\ InitHandler /\ InitDial /\ InitHook /\ InitPreview /\ InitUpload

(***************************************************************************)
(* StoreMedia                                                              *)
(***************************************************************************)
\* MatchIndex with line 113's || written as &&.
MatchIndex_andGenerated(recs, host, mediaId, isGeneratedId) ==
    LET hits == {i \in 1..Len(recs) :
                    /\ recs[i].Origin = host
                    /\ (recs[i].MediaId = mediaId /\ isGeneratedId)}
    IN IF hits = {} THEN 0 ELSE CHOOSE i \in hits : \A j \in hits : i <= j

\* Lines 110-128: the index of the first record that matches the host and the
\* media ID (any media ID when the call's was generated); 0 when none does.
MatchIndex(recs, host, mediaId, isGeneratedId) ==
    LET hits == {i \in 1..Len(recs) :
                    /\ recs[i].Origin = host
                    /\ (recs[i].MediaId = mediaId \/ isGeneratedId)}
    IN IF hits = {} THEN 0 ELSE CHOOSE i \in hits : \A j \in hits : i <= j

\* LastDuplicate taking the first of the records.
LastDuplicate_first(recs) == recs[1]

\* Lines 110-111 and 127: after the scan, `media` is the last of the records.
LastDuplicate(recs) == recs[Len(recs)]

\* RelabelDuplicate pointing the new record at the file just persisted.
RelabelDuplicate_ownLocation(last, r, now) ==
    [last EXCEPT !.Origin = r.host, !.UserId = r.userId, !.MediaId = r.mediaId,
                 !.UploadName = r.filename, !.ContentType = r.contentType,
                 !.CreationTs = now, !.Location = r.fileLocation]

\* Lines 132-137: the last duplicate, re-labelled with the request's identity.
RelabelDuplicate(last, r, now) ==
    [last EXCEPT !.Origin = r.host, !.UserId = r.userId, !.MediaId = r.mediaId,
                 !.UploadName = r.filename, !.ContentType = r.contentType,
                 !.CreationTs = now]

\* Lines 158-168: the record of a file seen for the first time.
UniqueRecord(r, hash, fileSize, now) ==
    [Origin |-> r.host, MediaId |-> r.mediaId, UploadName |-> r.filename,
     ContentType |-> r.contentType, UserId |-> r.userId, Sha256Hash |-> hash,
     SizeBytes |-> fileSize, Location |-> r.fileLocation, CreationTs |-> now]

\* InsertOutcome with `err != nil` written as `err == nil`.
InsertOutcome_errInverted(m, err) == IF err = "" THEN Err("insert") ELSE Ok(m)

\* InsertOutcome with the check of Insert's error left out.
InsertOutcome_errIgnored(m, err) == Ok(m)

\* Lines 139-145 and 170-176: what StoreMedia returns after s.store.Insert.
InsertOutcome(m, err) == IF err # "" THEN Err(err) ELSE Ok(m)

\* overwriteExistingOrDeleteTempFile removing the record's file, not the
\* temporary one.
overwriteExistingOrDeleteTempFile_wrongFile(d, tempFileLocation, mediaLocation, exists) ==
    IF exists # "yes"
    THEN Rename(d, tempFileLocation, mediaLocation)
    ELSE Remove(d, mediaLocation)

\* Lines 188-198: overwriteExistingOrDeleteTempFile, given what util.FileExists
\* answered ("error" is taken as the file being absent).
overwriteExistingOrDeleteTempFile(d, tempFileLocation, mediaLocation, exists) ==
    IF exists # "yes"
    THEN Rename(d, tempFileLocation, mediaLocation)
    ELSE Remove(d, tempFileLocation)

Return(p, r) ==
    /\ ret' = [ret EXCEPT ![p] = r]
    /\ pc' = [pc EXCEPT ![p] = "done"]

\* The call is past its lookup, found no match, and has not yet called Insert.
BeforeInsert(p) == pc[p] \in {"size", "insertNew", "insertDup"}

\* Lines 75-91: resolve the media ID and persist the stream.
StoreMediaBegin(p, uploads) ==
    /\ pc[p] = "idle"
    /\ \A q \in Procs : q < p => pc[q] # "idle"
    /\ \E contents \in Blobs, up \in uploads, host \in Hosts, mediaId \in SuppliedIds :
          LET isGeneratedId == mediaId = EmptyId
              id == IF isGeneratedId THEN generateMediaId(p) ELSE mediaId
          IN req' = [req EXCEPT ![p] =
                       [contents |-> contents, contentType |-> up[1],
                        filename |-> up[2], userId |-> up[3], host |-> host,
                        mediaId |-> id, isGeneratedId |-> isGeneratedId,
                        fileLocation |-> PersistFile(p), hash |-> NoMedia,
                        storeAtCall |-> store]]
    /\ \/ /\ disk' = [disk EXCEPT ![PersistFile(p)] = req'[p].contents]
          /\ pc' = [pc EXCEPT ![p] = "hash"]
          /\ UNCHANGED ret
       \/ /\ Return(p, Err("persist"))
          /\ UNCHANGED disk
    /\ UNCHANGED <<store, clock, media, raced>>

\* Lines 93-97
StoreMediaHash(p) ==
    /\ pc[p] = "hash"
    /\ \/ /\ req' = [req EXCEPT ![p].hash = GetFileHash(disk, req[p].fileLocation)]
          /\ pc' = [pc EXCEPT ![p] = "lookup"]
          /\ UNCHANGED <<disk, ret>>
       \/ /\ disk' = Remove(disk, req[p].fileLocation)
          /\ Return(p, Err("hash"))
          /\ UNCHANGED req
    /\ UNCHANGED <<store, clock, media, raced>>

\* Lines 99-130 and 148: the lookup by hash, and the scan of what it returned.
StoreMediaLookup(p) ==
    /\ pc[p] = "lookup"
    /\ \/ LET recs == GetByHash(store, req[p].hash)
              i == MatchIndex(recs, req[p].host, req[p].mediaId, req[p].isGeneratedId)
          IN /\ IF Len(recs) = 0
                THEN /\ pc' = [pc EXCEPT ![p] = "size"]
                     /\ UNCHANGED media
                ELSE IF i # 0
                THEN /\ media' = [media EXCEPT ![p] = recs[i]]
                     /\ pc' = [pc EXCEPT ![p] = "matched"]
                ELSE /\ media' = [media EXCEPT ![p] = LastDuplicate(recs)]
                     /\ pc' = [pc EXCEPT ![p] = "insertDup"]
             /\ raced' = IF Len(recs) # 0 /\ i # 0 THEN raced
                         ELSE raced \cup {{p, q} : q \in {x \in Procs : BeforeInsert(x)}}
             /\ UNCHANGED <<disk, ret>>
       \/ /\ disk' = Remove(disk, req[p].fileLocation)
          /\ Return(p, Err("getByHash"))
          /\ UNCHANGED <<media, raced>>
    /\ UNCHANGED <<store, clock, req>>

\* Lines 123-124: a match; tidy the temporary file and return the record.
StoreMediaMatched(p) ==
    /\ pc[p] = "matched"
    /\ \E exists \in {IF FileExists(disk, media[p].Location) THEN "yes" ELSE "no", "error"} :
          disk' = overwriteExistingOrDeleteTempFile(
                      disk, req[p].fileLocation, media[p].Location, exists)
    /\ Return(p, Ok(media[p]))
    /\ UNCHANGED <<store, clock, req, media, raced>>

\* Lines 132-142: insert a new record over the existing file.
StoreMediaInsertDup(p) ==
    /\ pc[p] = "insertDup"
    /\ LET m == RelabelDuplicate(media[p], req[p], clock)
       IN /\ media' = [media EXCEPT ![p] = m]
          /\ clock' = clock + 1
          /\ \/ /\ ~HasKey(store, m.Origin, m.MediaId)
                /\ store' = Insert(store, m)
                /\ pc' = [pc EXCEPT ![p] = "inserted"]
                /\ UNCHANGED ret
             \/ /\ HasKey(store, m.Origin, m.MediaId)
                /\ Return(p, InsertOutcome(m, "duplicate"))
                /\ UNCHANGED store
             \/ /\ Return(p, InsertOutcome(m, "insert"))
                /\ UNCHANGED store
    /\ UNCHANGED <<disk, req, raced>>

\* Lines 144-145
StoreMediaInserted(p) ==
    /\ pc[p] = "inserted"
    /\ \E exists \in {IF FileExists(disk, media[p].Location) THEN "yes" ELSE "no", "error"} :
          disk' = overwriteExistingOrDeleteTempFile(
                      disk, req[p].fileLocation, media[p].Location, exists)
    /\ Return(p, InsertOutcome(media[p], ""))
    /\ UNCHANGED <<store, clock, req, media, raced>>

\* Lines 150-168
StoreMediaSize(p) ==
    /\ pc[p] = "size"
    /\ \/ /\ media' = [media EXCEPT ![p] =
                         UniqueRecord(req[p], req[p].hash,
                                      FileSize(disk, req[p].fileLocation), clock)]
          /\ clock' = clock + 1
          /\ pc' = [pc EXCEPT ![p] = "insertNew"]
          /\ UNCHANGED <<disk, ret>>
       \/ /\ disk' = Remove(disk, req[p].fileLocation)
          /\ Return(p, Err("size"))
          /\ UNCHANGED <<media, clock>>
    /\ UNCHANGED <<store, req, raced>>

\* Lines 170-176
StoreMediaInsertNew(p) ==
    /\ pc[p] = "insertNew"
    /\ \/ /\ ~HasKey(store, media[p].Origin, media[p].MediaId)
          /\ store' = Insert(store, media[p])
          /\ Return(p, InsertOutcome(media[p], ""))
          /\ UNCHANGED disk
       \/ /\ HasKey(store, media[p].Origin, media[p].MediaId)
          /\ disk' = Remove(disk, req[p].fileLocation)
          /\ Return(p, InsertOutcome(media[p], "duplicate"))
          /\ UNCHANGED store
       \/ /\ disk' = Remove(disk, req[p].fileLocation)
          /\ Return(p, InsertOutcome(media[p], "insert"))
          /\ UNCHANGED store
    /\ UNCHANGED <<clock, req, media, raced>>

\* StoreMedia calls running concurrently.
Next ==
    \E p \in Procs :
       \/ StoreMediaBegin(p, OneUpload) /\ UNCHANGED <<handlerVars, dialVars, unitVars>>
       \/ StoreMediaHash(p) /\ UNCHANGED <<handlerVars, dialVars, unitVars>>
       \/ StoreMediaLookup(p) /\ UNCHANGED <<handlerVars, dialVars, unitVars>>
       \/ StoreMediaMatched(p) /\ UNCHANGED <<handlerVars, dialVars, unitVars>>
       \/ StoreMediaInsertDup(p) /\ UNCHANGED <<handlerVars, dialVars, unitVars>>
       \/ StoreMediaInserted(p) /\ UNCHANGED <<handlerVars, dialVars, unitVars>>
       \/ StoreMediaSize(p) /\ UNCHANGED <<handlerVars, dialVars, unitVars>>
       \/ StoreMediaInsertNew(p) /\ UNCHANGED <<handlerVars, dialVars, unitVars>>

Spec == Init /\ [][Next]_vars

\* StoreMedia calls made one after the other.
NoCallRunning == \A q \in Procs : pc[q] \in {"idle", "done"}

NextSeq ==
    \E p \in Procs :
       \/ NoCallRunning /\ StoreMediaBegin(p, Uploads) /\ UNCHANGED <<handlerVars, dialVars, unitVars>>
       \/ StoreMediaHash(p) /\ UNCHANGED <<handlerVars, dialVars, unitVars>>
       \/ StoreMediaLookup(p) /\ UNCHANGED <<handlerVars, dialVars, unitVars>>
       \/ StoreMediaMatched(p) /\ UNCHANGED <<handlerVars, dialVars, unitVars>>
       \/ StoreMediaInsertDup(p) /\ UNCHANGED <<handlerVars, dialVars, unitVars>>
       \/ StoreMediaInserted(p) /\ UNCHANGED <<handlerVars, dialVars, unitVars>>
       \/ StoreMediaSize(p) /\ UNCHANGED <<handlerVars, dialVars, unitVars>>
       \/ StoreMediaInsertNew(p) /\ UNCHANGED <<handlerVars, dialVars, unitVars>>

SpecSeq == Init /\ [][NextSeq]_vars

\* StoreMedia calls made one after the other, onto a table that holds
\* records of the same bytes.
NextDup ==
    \E p \in Procs :
       \/ NoCallRunning /\ StoreMediaBegin(p, OneUpload) /\ UNCHANGED <<handlerVars, dialVars, unitVars>>
       \/ StoreMediaHash(p) /\ UNCHANGED <<handlerVars, dialVars, unitVars>>
       \/ StoreMediaLookup(p) /\ UNCHANGED <<handlerVars, dialVars, unitVars>>
       \/ StoreMediaMatched(p) /\ UNCHANGED <<handlerVars, dialVars, unitVars>>
       \/ StoreMediaInsertDup(p) /\ UNCHANGED <<handlerVars, dialVars, unitVars>>
       \/ StoreMediaInserted(p) /\ UNCHANGED <<handlerVars, dialVars, unitVars>>
       \/ StoreMediaSize(p) /\ UNCHANGED <<handlerVars, dialVars, unitVars>>
       \/ StoreMediaInsertNew(p) /\ UNCHANGED <<handlerVars, dialVars, unitVars>>

SpecDup == InitDup /\ [][NextDup]_vars

(***************************************************************************)
(* downloadRemoteMedia and the resource handler                            *)
(***************************************************************************)
\* DownloadRemoteMedia that starts a fetch whether or not one is under way.
DownloadRemoteMedia_noCoalescing(c, k) ==
    /\ registry' = [registry EXCEPT ![k] =
                      [present |-> TRUE, waiters |-> registry[k].waiters \cup {c}]]
    /\ fetching' = [fetching EXCEPT ![k] = @ + 1]
    /\ started' = [started EXCEPT ![k] = @ + 1]
    /\ joined' = [joined EXCEPT ![c] = started'[k]]

\* The resource handler's DownloadRemoteMedia: under the registry's lock, a
\* caller joins the download of its key that is under way, or else enters a
\* new one in the registry and starts its fetch.
DownloadRemoteMedia(c, k) ==
    IF registry[k].present
    THEN /\ registry' = [registry EXCEPT ![k].waiters = @ \cup {c}]
         /\ joined' = [joined EXCEPT ![c] = started[k]]
         /\ UNCHANGED <<fetching, started>>
    ELSE /\ registry' = [registry EXCEPT ![k] = [present |-> TRUE, waiters |-> {c}]]
         /\ fetching' = [fetching EXCEPT ![k] = @ + 1]
         /\ started' = [started EXCEPT ![k] = @ + 1]
         /\ joined' = [joined EXCEPT ![c] = started'[k]]

\* Deliver that hands the result to the first waiter only.
Deliver_firstOnly(waiters, ch, res) ==
    [c \in Callers |->
        IF c \in waiters /\ \A d \in waiters : c <= d THEN res ELSE ch[c]]

\* The result of a fetch, handed to every waiter of the entry.
Deliver(waiters, ch, res) ==
    [c \in Callers |-> IF c \in waiters THEN res ELSE ch[c]]

\* FetchComplete that delivers the result and leaves the entry in the registry.
FetchComplete_entryKept(k, res) ==
    /\ fetching[k] > 0
    /\ fetching' = [fetching EXCEPT ![k] = @ - 1]
    /\ hchan' = Deliver(registry[k].waiters, hchan, res)
    /\ registry' = [registry EXCEPT ![k].waiters = {}]
    /\ outcomes' = [outcomes EXCEPT ![k] = Append(@, res)]
    /\ UNCHANGED <<hpc, hkey, hret, started, joined>>

\* A fetch ends: its one result goes to every waiter and the entry leaves the
\* registry, in one critical section.
FetchComplete(k, res) ==
    /\ fetching[k] > 0
    /\ fetching' = [fetching EXCEPT ![k] = @ - 1]
    /\ hchan' = Deliver(registry[k].waiters, hchan, res)
    /\ registry' = [registry EXCEPT ![k] = NoEntry]
    /\ outcomes' = [outcomes EXCEPT ![k] = Append(@, res)]
    /\ UNCHANGED <<hpc, hkey, hret, started, joined>>

\* Line 40 returning a nil error whatever the result holds.
downloadRemoteMediaReturn_errDropped(result) == [media |-> result.media, err |-> ""]

\* Line 40: return result.media, result.err
downloadRemoteMediaReturn(result) == [media |-> result.media, err |-> result.err]

\* Line 39, the call: getResourceHandler().DownloadRemoteMedia(server, mediaId)
downloadRemoteMediaCall(c, k) ==
    /\ hpc[c] = "idle"
    /\ \A d \in Callers : d < c => hpc[d] # "idle"
    /\ hkey' = [hkey EXCEPT ![c] = k]
    /\ hpc' = [hpc EXCEPT ![c] = "waiting"]
    /\ DownloadRemoteMedia(c, k)
    /\ UNCHANGED <<hchan, hret, outcomes>>

\* Lines 39-40: the receive from the channel, and the return.
downloadRemoteMediaReceive(c) ==
    /\ hpc[c] = "waiting"
    /\ hchan[c] # NoResult
    /\ hret' = [hret EXCEPT ![c] = downloadRemoteMediaReturn(hchan[c])]
    /\ hpc' = [hpc EXCEPT ![c] = "done"]
    /\ UNCHANGED <<registry, fetching, hkey, hchan, started, outcomes, joined>>

NextHandler ==
    \/ \E c \in Callers, k \in RemoteKeys :
          downloadRemoteMediaCall(c, k) /\ UNCHANGED <<storeVars, dialVars, unitVars>>
    \/ \E c \in Callers :
          downloadRemoteMediaReceive(c) /\ UNCHANGED <<storeVars, dialVars, unitVars>>
    \/ \E k \in RemoteKeys, res \in FetchResults :
          FetchComplete(k, res) /\ UNCHANGED <<storeVars, dialVars, unitVars>>

SpecHandler == Init /\ [][NextHandler]_vars

\* Every fetch ends (it completes, or its timeout expires), and a caller whose
\* channel holds a result takes it.
FairSpecHandler ==
    /\ SpecHandler
    /\ \A k \in RemoteKeys :
          WF_vars(\E res \in FetchResults :
                      FetchComplete(k, res) /\ UNCHANGED <<storeVars, dialVars, unitVars>>)
    /\ \A c \in Callers :
          WF_vars(downloadRemoteMediaReceive(c) /\ UNCHANGED <<storeVars, dialVars, unitVars>>)

(***************************************************************************)
(* doHttpGet: the HTTP client and its dial hook                            *)
(*                                                                         *)
(* Addresses and hosts are text, written as sequences of tokens:           *)
(* <<"good.example", ":", "8080">> is "good.example:8080".                 *)
(***************************************************************************)
\* Host names of the URLs previewed and redirected to, with the addresses the
\* DNS may answer for each; the answer may differ from one lookup to the next.
HostNames == {"good.example", "rebind.example", "intra.example", "cdn.example"}
DnsAnswers(name) ==
    CASE name = "good.example" -> {"93.184.216.34"}
      [] name = "rebind.example" -> {"93.184.216.34", "127.0.0.1"}
      [] name = "intra.example" -> {"10.0.0.5"}
      [] name = "cdn.example" -> {"93.184.216.34", "93.184.216.35"}
      [] OTHER -> {}

\* The address policy: loopback and private ranges are denied.
IsAllowed(ip) == ip \notin {"127.0.0.1", "10.0.0.5"}

Schemes == {"http", "https"}
HostTexts == {<<n>> : n \in HostNames} \cup {<<n, ":", "8080">> : n \in {"good.example"}}
Urls == {[Scheme |-> sch, Host |-> h] : sch \in Schemes, h \in HostTexts}

HasColon(text) == \E i \in 1..Len(text) : text[i] = ":"

\* net.JoinHostPort: a host that holds a colon goes in brackets.
JoinHostPort(host, port) ==
    IF HasColon(host)
    THEN <<"[">> \o host \o <<"]", ":", port>>
    ELSE host \o <<":", port>>

\* net.SplitHostPort at the last colon; err when there is none.
SplitHostPort(addr) ==
    IF ~HasColon(addr)
    THEN [host |-> <<>>, port |-> "", err |-> "missing port in address"]
    ELSE LET i == CHOOSE j \in 1..Len(addr) :
                      addr[j] = ":" /\ \A m \in (j + 1)..Len(addr) : addr[m] # ":"
         IN [host |-> SubSeq(addr, 1, i - 1),
             port |-> IF i = Len(addr) THEN "" ELSE addr[i + 1],
             err |-> ""]

\* net/http: the default port of a scheme, and the address the transport dials
\* for a URL.
PortOf(scheme) == IF scheme = "https" THEN "443" ELSE "80"
CanonicalAddr(url) ==
    IF HasColon(url.Host) THEN url.Host ELSE JoinHostPort(url.Host, PortOf(url.Scheme))

\* getSafeAddress: split the host from the port, take the address the host
\* resolves to, and refuse it when the policy denies it.
getSafeAddress(addr, resolved) ==
    LET hp == SplitHostPort(addr)
    IN IF ~IsAllowed(resolved)
       THEN [ip |-> "", port |-> "", err |-> "unsafe destination"]
       ELSE [ip |-> resolved, port |-> hp.port, err |-> ""]

\* The host name a dial of addr resolves.
DialedName(addr) ==
    LET hp == SplitHostPort(addr) IN IF hp.err # "" THEN addr[1] ELSE hp.host[1]

NoDial == <<>>

\* InferPorts expecting the port of the URL's scheme whatever port the resolver
\* returned, with no alternate.
InferPorts_schemePortOnly(scheme, safePort) ==
    IF scheme = "http"
    THEN [safePort |-> "80", altPort |-> "", err |-> ""]
    ELSE IF scheme = "https"
    THEN [safePort |-> "443", altPort |-> "", err |-> ""]
    ELSE [safePort |-> "", altPort |-> "",
          err |-> "unexpected scheme: cannot determine port"]

\* InferPorts keeping the scheme's other port as alternate whether or not the
\* resolver returned a port.
InferPorts_altAlways(scheme, safePort) ==
    IF scheme = "http"
    THEN [safePort |-> IF safePort = "" THEN "80" ELSE safePort, altPort |-> "443", err |-> ""]
    ELSE IF scheme = "https"
    THEN [safePort |-> IF safePort = "" THEN "443" ELSE safePort, altPort |-> "80", err |-> ""]
    ELSE IF safePort # ""
    THEN [safePort |-> safePort, altPort |-> "", err |-> ""]
    ELSE [safePort |-> "", altPort |-> "",
          err |-> "unexpected scheme: cannot determine port"]

\* Lines 45-56: the port expected and the alternate port, given the port the
\* resolver returned.
InferPorts(scheme, safePort) ==
    IF safePort # ""
    THEN [safePort |-> safePort, altPort |-> "", err |-> ""]
    ELSE IF scheme = "http"
    THEN [safePort |-> "80", altPort |-> "443", err |-> ""]
    ELSE IF scheme = "https"
    THEN [safePort |-> "443", altPort |-> "80", err |-> ""]
    ELSE [safePort |-> "", altPort |-> "",
          err |-> "unexpected scheme: cannot determine port"]

\* dialContext dialing the address it was asked for, not the resolved one.
dialContext_dialsHostname(network, addr, url, safe) ==
    IF network # "tcp"
    THEN [dial |-> NoDial, err |-> "invalid network: expected tcp"]
    ELSE IF safe.err # ""
    THEN [dial |-> NoDial, err |-> safe.err]
    ELSE IF InferPorts(url.Scheme, safe.port).err # ""
    THEN [dial |-> NoDial, err |-> InferPorts(url.Scheme, safe.port).err]
    ELSE LET safePort == InferPorts(url.Scheme, safe.port).safePort
             altPort == InferPorts(url.Scheme, safe.port).altPort
             expectedAddr == JoinHostPort(url.Host, safePort)
             altAddr == JoinHostPort(url.Host, altPort)
         IN IF addr = expectedAddr \/ (addr = altAddr /\ altPort # "")
            THEN [dial |-> addr, err |-> ""]
            ELSE [dial |-> NoDial, err |-> "unexpected host: not safe to complete request"]

\* Lines 30-75: the dial hook; `safe` is what getSafeAddress returned.  The
\* result is the address handed to dialer.DialContext, or the error.
dialContext(network, addr, url, safe) ==
    IF network # "tcp"
    THEN [dial |-> NoDial, err |-> "invalid network: expected tcp"]
    ELSE IF safe.err # ""
    THEN [dial |-> NoDial, err |-> safe.err]
    ELSE IF InferPorts(url.Scheme, safe.port).err # ""
    THEN [dial |-> NoDial, err |-> InferPorts(url.Scheme, safe.port).err]
    ELSE LET safePort == InferPorts(url.Scheme, safe.port).safePort
             altPort == InferPorts(url.Scheme, safe.port).altPort
             expectedAddr == JoinHostPort(url.Host, safePort)
             altAddr == JoinHostPort(url.Host, altPort)
             returnAddr == IF addr = expectedAddr
                           THEN JoinHostPort(<<safe.ip>>, safePort)
                           ELSE IF addr = altAddr /\ altPort # ""
                           THEN JoinHostPort(<<safe.ip>>, altPort)
                           ELSE NoDial
         IN IF returnAddr # NoDial
            THEN [dial |-> returnAddr, err |-> ""]
            ELSE [dial |-> NoDial, err |-> "unexpected host: not safe to complete request"]

\* Lines 77-112: which hook net/http's transport calls to connect for a
\* request: a transport that has DialTLS uses it for every https request.
UsesDialTLS(unsafe, scheme) == unsafe /\ scheme = "https"

\* Lines 21-29 and 114-120: build the client and send the request.
doHttpGet(url, unsafe) ==
    /\ dpc = "idle"
    /\ unsafeCerts' = unsafe
    /\ durl' = url
    /\ dhop' = url
    /\ dpc' = "dial"
    /\ UNCHANGED <<redirects, conns, dres>>

\* The transport connects through DialContext (lines 30-75).
ConnectDialContext ==
    /\ dpc = "dial"
    /\ ~UsesDialTLS(unsafeCerts, dhop.Scheme)
    /\ LET addr == CanonicalAddr(dhop)
       IN \E resolved \in DnsAnswers(DialedName(addr)) :
             LET r == dialContext("tcp", addr, durl, getSafeAddress(addr, resolved))
             IN IF r.err = ""
                THEN /\ conns' = conns \cup
                            {[to |-> r.dial, ip |-> resolved, via |-> "DialContext",
                              checked |-> TRUE]}
                     /\ dpc' = "connected"
                     /\ UNCHANGED dres
                ELSE /\ dres' = r.err
                     /\ dpc' = "done"
                     /\ UNCHANGED conns
    /\ UNCHANGED <<unsafeCerts, durl, dhop, redirects>>

\* The transport connects through DialTLS (lines 84-98): net.Dial resolves the
\* name itself and connects to what it resolved.
ConnectDialTLS ==
    /\ dpc = "dial"
    /\ UsesDialTLS(unsafeCerts, dhop.Scheme)
    /\ LET addr == CanonicalAddr(dhop)
       IN \E resolved \in DnsAnswers(DialedName(addr)) :
             conns' = conns \cup
                 {[to |-> JoinHostPort(<<resolved>>, SplitHostPort(addr).port),
                   ip |-> resolved, via |-> "DialTLS", checked |-> FALSE]}
    /\ dpc' = "connected"
    /\ UNCHANGED <<unsafeCerts, durl, dhop, redirects, dres>>

\* The server answers with a redirect, which the client follows.
Redirect(to) ==
    /\ dpc = "connected"
    /\ redirects < MaxRedirects
    /\ redirects' = redirects + 1
    /\ dhop' = to
    /\ dpc' = "dial"
    /\ UNCHANGED <<unsafeCerts, durl, conns, dres>>

\* The server answers with a final response, or the transfer fails.
Respond(outcome) ==
    /\ dpc = "connected"
    /\ dres' = outcome
    /\ dpc' = "done"
    /\ UNCHANGED <<unsafeCerts, durl, dhop, redirects, conns>>

NextDial ==
    \/ \E url \in Urls, unsafe \in BOOLEAN :
          doHttpGet(url, unsafe) /\ UNCHANGED <<storeVars, handlerVars, unitVars>>
    \/ ConnectDialContext /\ UNCHANGED <<storeVars, handlerVars, unitVars>>
    \/ ConnectDialTLS /\ UNCHANGED <<storeVars, handlerVars, unitVars>>
    \/ \E to \in Urls : Redirect(to) /\ UNCHANGED <<storeVars, handlerVars, unitVars>>
    \/ \E outcome \in {"response", "transfer failed"} :
          Respond(outcome) /\ UNCHANGED <<storeVars, handlerVars, unitVars>>

SpecDial == Init /\ [][NextDial]_vars

(***************************************************************************)
(* The dial hook called on its own, with any network and address           *)
(***************************************************************************)
Networks == {"tcp", "udp"}
\* Addresses with a port, with an empty port and with none.
HookAddrs ==
    UNION {{<<n>>, <<n, ":">>, <<n, ":", "80">>, <<n, ":", "443">>, <<n, ":", "8080">>} :
              n \in HostNames}
HookUrls == {[Scheme |-> sch, Host |-> h] : sch \in Schemes \cup {"ftp"}, h \in HostTexts}

\* One call of the hook of a doHttpGet(url): lines 30-75, with the address
\* that getSafeAddress resolved.
DialHook(network, addr, url) ==
    \E resolved \in DnsAnswers(DialedName(addr)) :
        LET safe == getSafeAddress(addr, resolved)
        IN hcall' = [made |-> TRUE, network |-> network, addr |-> addr, url |-> url,
                     resolved |-> resolved, safe |-> safe,
                     out |-> dialContext(network, addr, url, safe)]

NextHook ==
    \E network \in Networks, addr \in HookAddrs, url \in HookUrls :
        DialHook(network, addr, url)
            /\ UNCHANGED <<storeVars, handlerVars, dialVars, previewVars, uploadVars>>

SpecHook == Init /\ [][NextHook]_vars

(***************************************************************************)
(* downloadRawContent and downloadHtmlContent                              *)
(*                                                                         *)
(* Content types and glob patterns are text, written as sequences of       *)
(* tokens: <<"text", "/", "*">> is "text/*".                               *)
(***************************************************************************)
\* ctx.Config.UrlPreviews.MaxPageSizeBytes: none (zero or negative), or two bytes.
MaxPageSizes == {-1, 0, 2}

TextAny == <<"text", "/", "*">>
ImageAny == <<"image", "/", "*">>
\* The supportedTypes of a call.
TypeLists == {<<>>, <<TextAny>>, <<ImageAny>>, <<TextAny, ImageAny>>, <<<<"*">>>>}

\* What doHttpGet returns: an error, or a response.  ContentLength is -1 when
\* the response declares none; the body may be longer or shorter than declared.
Responses ==
    {[err |-> "transfer failed"]} \cup
    [err : {""}, StatusCode : {200, 404}, ContentLength : {-1, 1, 3},
     Body : {<<>>, <<7>>, <<7, 8, 9>>},
     ContentType : {<<"text", "/", "html">>, <<"image", "/", "png">>, <<>>},
     Disposition : {<<>>, <<"attachment", "filename", "p.html">>}]

\* glob.Glob: "*" in the pattern stands for any text, the rest stands for itself.
RECURSIVE Glob(_, _)
Glob(pattern, subj) ==
    IF pattern = <<>> THEN subj = <<>>
    ELSE IF Head(pattern) = "*"
    THEN Glob(Tail(pattern), subj) \/ (subj # <<>> /\ Glob(pattern, Tail(subj)))
    ELSE subj # <<>> /\ Head(subj) = Head(pattern) /\ Glob(Tail(pattern), Tail(subj))

\* Go's nil io.ReadCloser.
NilReader == [nil |-> TRUE]

\* io.LimitReader over the body, in a closer: what reading it to the end yields.
LimitReader(body, n) ==
    [nil |-> FALSE, data |-> IF Len(body) <= n THEN body ELSE SubSeq(body, 1, n)]

\* mime.ParseMediaType(disposition), params["filename"]
DispositionFilename(disposition) == IF Len(disposition) = 3 THEN disposition[3] ELSE ""

RawError(e) == [reader |-> NilReader, filename |-> "", contentType |-> <<>>, err |-> e]

\* downloadRawContent returning the body itself, without io.LimitReader.
downloadRawContent_noLimit(max, resp, supportedTypes) ==
    IF resp.err # "" THEN RawError(resp.err)
    ELSE IF resp.StatusCode # 200 THEN RawError("error during transfer")
    ELSE IF max > 0 /\ resp.ContentLength >= 0 /\ resp.ContentLength > max
    THEN RawError("ErrMediaTooLarge")
    ELSE IF \E i \in 1..Len(supportedTypes) : ~Glob(supportedTypes[i], resp.ContentType)
    THEN RawError("ErrPreviewUnsupported")
    ELSE [reader |-> [nil |-> FALSE, data |-> resp.Body],
          filename |-> DispositionFilename(resp.Disposition),
          contentType |-> resp.ContentType, err |-> ""]

\* Lines 123-161: downloadRawContent, given what doHttpGet returned.
downloadRawContent(max, resp, supportedTypes) ==
    IF resp.err # "" THEN RawError(resp.err)
    ELSE IF resp.StatusCode # 200 THEN RawError("error during transfer")
    ELSE IF max > 0 /\ resp.ContentLength >= 0 /\ resp.ContentLength > max
    THEN RawError("ErrMediaTooLarge")
    ELSE LET reader == IF max > 0 THEN LimitReader(resp.Body, max) ELSE NilReader
         IN IF \E i \in 1..Len(supportedTypes) :
                   ~Glob(supportedTypes[i], resp.ContentType)
            THEN RawError("ErrPreviewUnsupported")
            ELSE [reader |-> reader, filename |-> DispositionFilename(resp.Disposition),
                  contentType |-> resp.ContentType, err |-> ""]

\* Lines 165-174: downloadHtmlContent, given what downloadRawContent returned.
\* Close and Read of a nil io.ReadCloser panic.
downloadHtmlContent(raw) ==
    IF raw.err # ""
    THEN [made |-> TRUE, html |-> <<>>, err |-> raw.err, panic |-> FALSE, read |-> 0]
    ELSE IF raw.reader = NilReader
    THEN [made |-> TRUE, html |-> <<>>, err |-> "", panic |-> TRUE, read |-> 0]
    ELSE [made |-> TRUE, html |-> raw.reader.data, err |-> "", panic |-> FALSE,
          read |-> Len(raw.reader.data)]

\* Line 164: downloadHtmlContent calls downloadRawContent.
downloadRawContentCall(max, resp, supportedTypes) ==
    /\ ppc = "idle"
    /\ praw' = [made |-> TRUE, max |-> max, resp |-> resp,
                supportedTypes |-> supportedTypes,
                out |-> downloadRawContent(max, resp, supportedTypes)]
    /\ ppc' = "raw"
    /\ UNCHANGED phtml

\* Lines 165-174: the error returned, or the stream read to its end and closed.
downloadHtmlContentRead ==
    /\ ppc = "raw"
    /\ phtml' = downloadHtmlContent(praw.out)
    /\ ppc' = "done"
    /\ UNCHANGED praw

NextPreview ==
    \/ \E max \in MaxPageSizes, resp \in Responses, supportedTypes \in TypeLists :
          downloadRawContentCall(max, resp, supportedTypes)
              /\ UNCHANGED <<storeVars, handlerVars, dialVars, hookVars, uploadVars>>
    \/ downloadHtmlContentRead
          /\ UNCHANGED <<storeVars, handlerVars, dialVars, hookVars, uploadVars>>

SpecPreview == Init /\ [][NextPreview]_vars

(***************************************************************************)
(* IsTooLarge                                                              *)
(*                                                                         *)
(* The Content-Length header is text, written as a sequence of characters. *)
(***************************************************************************)
\* config.Get().Uploads.MaxSizeBytes: none (zero or negative), or ten bytes.
MaxSizes == {-1, 0, 10}
\* contentLength: -1 when the request declares none.
ContentLengths == {-1, 0, 9, 10, 11}
ContentLengthHeaders ==
    {<<>>, <<"9">>, <<"1", "0">>, <<"1", "1">>, <<"0", "1", "1">>, <<"+", "1", "1">>,
     <<"-", "5">>, <<"-">>, <<" ", "9">>, <<"1", "0", "x">>,
     <<"9", "9", "9", "9">>, <<"-", "9", "9", "9", "9">>}

DigitChars == <<"0", "1", "2", "3", "4", "5", "6", "7", "8", "9">>
IsDigit(c) == \E d \in 1..10 : DigitChars[d] = c
DigitValue(c) == (CHOOSE d \in 1..10 : DigitChars[d] = c) - 1

RECURSIVE DecimalValue(_)
DecimalValue(digits) ==
    IF digits = <<>> THEN 0
    ELSE 10 * DecimalValue(SubSeq(digits, 1, Len(digits) - 1))
            + DigitValue(digits[Len(digits)])

\* strconv.ParseInt(s, 10, 64): an optional sign, then decimal digits and
\* nothing else; a syntax error otherwise, and a range error for a number
\* that int64 cannot hold.
ParseInt(s) ==
    LET signed == s # <<>> /\ s[1] \in {"+", "-"}
        digits == IF signed THEN Tail(s) ELSE s
    IN IF digits = <<>> \/ \E i \in 1..Len(digits) : ~IsDigit(digits[i])
       THEN [val |-> 0, err |-> "invalid syntax"]
       ELSE LET v == IF signed /\ s[1] = "-"
                     THEN 0 - DecimalValue(digits) ELSE DecimalValue(digits)
            IN IF v > 2^(IntBits - 1) - 1 \/ v < 0 - 2^(IntBits - 1)
               THEN [val |-> 0, err |-> "value out of range"]
               ELSE [val |-> v, err |-> ""]

\* IsTooLarge with > written as >=.
IsTooLarge_atMaximum(maxSizeBytes, contentLength, contentLengthHeader) ==
    IF maxSizeBytes <= 0 THEN FALSE
    ELSE IF contentLength >= 0 THEN contentLength >= maxSizeBytes
    ELSE IF contentLengthHeader # <<>>
    THEN IF ParseInt(contentLengthHeader).err # "" THEN TRUE
         ELSE ParseInt(contentLengthHeader).val >= maxSizeBytes
    ELSE FALSE

\* Lines 43-61: IsTooLarge, given config.Get().Uploads.MaxSizeBytes.
IsTooLarge(maxSizeBytes, contentLength, contentLengthHeader) ==
    IF maxSizeBytes <= 0 THEN FALSE
    ELSE IF contentLength >= 0 THEN contentLength > maxSizeBytes
    ELSE IF contentLengthHeader # <<>>
    THEN IF ParseInt(contentLengthHeader).err # "" THEN TRUE
         ELSE ParseInt(contentLengthHeader).val > maxSizeBytes
    ELSE FALSE

IsTooLargeCall(maxSizeBytes, contentLength, contentLengthHeader) ==
    tcall' = [made |-> TRUE, max |-> maxSizeBytes, contentLength |-> contentLength,
              header |-> contentLengthHeader,
              result |-> IsTooLarge(maxSizeBytes, contentLength, contentLengthHeader)]

NextUpload ==
    \E maxSizeBytes \in MaxSizes, contentLength \in ContentLengths,
       contentLengthHeader \in ContentLengthHeaders :
        IsTooLargeCall(maxSizeBytes, contentLength, contentLengthHeader)
            /\ UNCHANGED <<storeVars, handlerVars, dialVars, hookVars, previewVars>>

SpecUpload == Init /\ [][NextUpload]_vars

(***************************************************************************)
(* Properties of doHttpGet                                                 *)
(***************************************************************************)
\* C2: every socket doHttpGet connected was dialed after getSafeAddress had
\* accepted the address, whatever the scheme, the hop and the certificate
\* mode; no socket is connected to an address the policy denies.
C2_EveryDialResolvedSafely ==
    \A cn \in conns : cn.checked /\ IsAllowed(cn.ip)

(***************************************************************************)
(* Properties of downloadRemoteMedia                                       *)
(***************************************************************************)
CallersOf(k) == {c \in Callers : hpc[c] # "idle" /\ hkey[c] = k}

\* C3: at most one fetch per key is under way; the callers waiting on a key
\* at one time all wait for one and the same fetch; and as many fetches were
\* started for a key as there are groups of callers that shared one.
C3_OneFetchPerKey ==
    \A k \in RemoteKeys :
        /\ fetching[k] <= 1
        /\ registry[k].present <=> fetching[k] = 1
        /\ \A c, d \in registry[k].waiters : joined[c] = joined[d]
        /\ \A c \in registry[k].waiters : hkey[c] = k /\ joined[c] = started[k]
        /\ started[k] = Cardinality({joined[c] : c \in CallersOf(k)})

C3_Witness ==
    \E k \in RemoteKeys :
        /\ Cardinality(registry[k].waiters) = MaxCallers
        /\ started[k] = 1 /\ fetching[k] = 1

\* C4: the callers that waited for one fetch return one and the same pair,
\* the result of that fetch, be it a failure or not.
C4_WaitersShareResult ==
    \A c \in Callers :
        hpc[c] = "done" =>
            /\ hret[c] = outcomes[hkey[c]][joined[c]]
            /\ \A d \in Callers :
                  hpc[d] = "done" /\ hkey[d] = hkey[c] /\ joined[d] = joined[c]
                      => hret[d] = hret[c]

C4_Witness ==
    \E c, d \in Callers :
        /\ c # d /\ hpc[c] = "done" /\ hpc[d] = "done"
        /\ hkey[c] = hkey[d] /\ joined[c] = joined[d]
        /\ hret[c].err # ""

Rows == {store[i] : i \in 1..Len(store)}
Done(p) == pc[p] = "done"
Succeeded(p) == Done(p) /\ ret[p].err = ""
Called == {p \in Procs : pc[p] # "idle"}
RowsFor(host, mediaId) == {r \in Rows : r.Origin = host /\ r.MediaId = mediaId}
BlobsHolding(b) == {l \in Locations : disk[l] = b}

\* C1: when StoreMedia has returned, whatever the outcome, the temporary file
\* it wrote is the location of a stored record, or is gone (moved or deleted).
C1_TempFileNeverLeaked ==
    \A p \in Procs :
        Done(p) =>
            \/ disk[PersistFile(p)] = NoFile
            \/ \E r \in Rows : r.Location = PersistFile(p)

\* C6 as stated: N successful ingestions of the same bytes, one after the
\* other, under N distinct (origin, mediaId) pairs leave a record for each pair,
\* N in all, with one hash and one location, and one file with those bytes.
SameBytesIngested ==
    /\ Called # {}
    /\ \A p \in Called : Succeeded(p)
    /\ \A p, q \in Called : req[p].contents = req[q].contents
DistinctPairs ==
    \A p, q \in Called :
        p # q => <<req[p].host, req[p].mediaId>> # <<req[q].host, req[q].mediaId>>
Deduplicated ==
    LET b == req[CHOOSE p \in Called : TRUE].contents
        mine == {r \in Rows : \E p \in Called :
                    r.Origin = req[p].host /\ r.MediaId = req[p].mediaId}
    IN /\ \A p \in Called : RowsFor(req[p].host, req[p].mediaId) # {}
       /\ Cardinality(mine) = Cardinality(Called)
       /\ \A r \in mine : r.Sha256Hash = Sha256(b)
       /\ \A r1, r2 \in Rows :
             r1.Sha256Hash = Sha256(b) /\ r2.Sha256Hash = Sha256(b)
                 => r1.Location = r2.Location
       /\ Cardinality(BlobsHolding(b)) = 1
C6_NRecordsOneBlob == SameBytesIngested /\ DistinctPairs => Deduplicated

\* No call with a generated media ID names an origin that already had a
\* record of the bytes (from an earlier call, or from the earlier run).
NoGeneratedIdOnKnownOrigin ==
    \A p \in Called :
        req[p].isGeneratedId =>
            /\ \A q \in Called : q < p => req[q].host # req[p].host
            /\ ~(/\ SeedRecord \in Rows
                 /\ SeedRecord.Origin = req[p].host
                 /\ SeedRecord.Sha256Hash = Sha256(req[p].contents))

\* C6, amended: the same, for calls none of which has a generated media ID
\* under an origin that already holds a record of the bytes.
C6_NRecordsOneBlobUnlessMatched ==
    SameBytesIngested /\ DistinctPairs /\ NoGeneratedIdOnKnownOrigin => Deduplicated

C6_Witness ==
    /\ Called = Procs
    /\ SameBytesIngested /\ DistinctPairs /\ NoGeneratedIdOnKnownOrigin
    /\ \E p \in Procs : req[p].isGeneratedId

\* The call is under way and row i is a record of its bytes under its
\* (origin, mediaId).
Reingests(p, i) ==
    /\ pc[p] \notin {"idle", "done"}
    /\ store[i].Origin = req[p].host
    /\ store[i].MediaId = req[p].mediaId
    /\ store[i].Sha256Hash = Sha256(req[p].contents)

\* C7: a call that ingests the bytes of a stored record under that record's
\* (origin, mediaId) leaves the table as it is and returns that record, all
\* fields as stored (or the error of a failed hash or lookup).
C7_ReingestReturnsStoredRecord ==
    [][\A p \in Procs : \A i \in 1..Len(store) :
          Reingests(p, i) =>
              /\ store' = store
              /\ pc'[p] = "done" =>
                    \/ ret'[p] = Ok(store[i])
                    \/ ret'[p].err \in {"hash", "getByHash"}]_vars

C7_Witness ==
    \E p \in Procs :
        /\ Succeeded(p)
        /\ ~req[p].isGeneratedId
        /\ ret[p].media \in RowsFor(req[p].host, req[p].mediaId)
        /\ ret[p].media.ContentType # req[p].contentType
        /\ ret[p].media.UploadName # req[p].filename
        /\ ret[p].media.UserId # req[p].userId

\* C8: all records with one content hash have one storage location.
C8_OneLocationPerHash ==
    \A r1, r2 \in Rows : r1.Sha256Hash = r2.Sha256Hash => r1.Location = r2.Location

\* Two finished calls with the same bytes and the same caller-supplied
\* (origin, mediaId) that were both past their lookup before either called
\* Insert, and whose Inserts the table accepted or refused as duplicates.
RacedForKey(p, q) ==
    /\ p # q /\ {p, q} \in raced
    /\ Done(p) /\ Done(q)
    /\ req[p].contents = req[q].contents
    /\ req[p].host = req[q].host /\ req[p].mediaId = req[q].mediaId
    /\ ~req[p].isGeneratedId /\ ~req[q].isGeneratedId
    /\ ret[p].err \in {"", "duplicate"} /\ ret[q].err \in {"", "duplicate"}

\* C9 as stated: of two such calls exactly one succeeds, and the table then
\* holds exactly one record for the pair.
C9_ExactlyOneInsertSucceeds ==
    \A p, q \in Procs :
        RacedForKey(p, q) =>
            /\ (ret[p].err = "") # (ret[q].err = "")
            /\ Cardinality(RowsFor(req[p].host, req[p].mediaId)) = 1

\* C9, amended: at most one of the two succeeds, and exactly one unless the
\* record for the pair is somebody else's; a call refused as a duplicate has
\* inserted nothing; the table holds exactly one record for the pair.
C9_AtMostOneInsertSucceeds ==
    \A p, q \in Procs :
        RacedForKey(p, q) =>
            LET rows == RowsFor(req[p].host, req[p].mediaId)
            IN /\ ~(ret[p].err = "" /\ ret[q].err = "")
               /\ \A x \in {p, q} : ret[x].err = "duplicate" => media[x] \notin Rows
               /\ Cardinality(rows) = 1
               /\ rows \subseteq {media[p], media[q]}
                     => (ret[p].err = "") # (ret[q].err = "")

C9_Witness ==
    \E p, q \in Procs :
        /\ RacedForKey(p, q)
        /\ ret[p].err = "" /\ ret[q].err = "duplicate"
        /\ RowsFor(req[p].host, req[p].mediaId) = {media[p]}

\* C10: every stored record's location holds a file.
C10_RecordsReferenceBlobs == \A r \in Rows : disk[r.Location] # NoFile

C10_Witness ==
    \E p, q \in Procs :
        /\ Done(p) /\ ret[p].err \in {"hash", "getByHash", "size", "insert", "duplicate"}
        /\ disk[PersistFile(p)] = NoFile
        /\ Succeeded(q) /\ ret[q].media.Location # PersistFile(q)
        /\ disk[PersistFile(q)] = NoFile
        /\ ret[q].media \in Rows

\* C11: a call that returns an error (of PersistFile, GetFileHash, GetByHash,
\* FileSize or Insert) has not touched the table: none of its steps changed
\* it, and, for calls made one after the other, the table at the return is
\* the table as it was when the call was made.
C11_ErrorLeavesStoreUnchanged ==
    [][\A p \in Procs :
          /\ pc[p] \notin {"idle", "done"} /\ store' # store
                => pc'[p] = "inserted" \/ (pc'[p] = "done" /\ ret'[p].err = "")
          /\ pc[p] # "done" /\ pc'[p] = "done" /\ ret'[p].err # ""
                => store' = store /\ store' = req'[p].storeAtCall]_vars

\* A call made onto a table that holds a record returned the error of an
\* Insert the table refused or failed, having re-labelled the last duplicate.
C11_Witness ==
    \E p \in Procs :
        /\ Done(p) /\ ret[p].err \in {"duplicate", "insert"}
        /\ media[p] # NoMedia /\ media[p].Location = SeedLocation
        /\ store = req[p].storeAtCall /\ store # <<>>

(***************************************************************************)
(* Properties of the dial hook                                             *)
(***************************************************************************)
\* The text "host:port".
HostColonPort(host, port) == host \o <<":", port>>

\* The addresses the hook of a call accepts: the URL's host with the port
\* expected and, when there is one, with the alternate port.
AcceptedAddrs(call) ==
    LET ports == InferPorts(call.url.Scheme, call.safe.port)
    IN {HostColonPort(call.url.Host, ports.safePort)} \cup
       (IF ports.altPort # "" THEN {HostColonPort(call.url.Host, ports.altPort)} ELSE {})

\* C12: the hook dials only when the address asked for is the expected or
\* the alternate address; any other address gets an error and no dial; and
\* what it dials is the address resolved and allowed by the policy, with the
\* port of the address asked for, never the host name.
C12_DialsOnlyExpectedAtResolvedIp ==
    hcall.made =>
        /\ hcall.out.err = "" <=> hcall.out.dial # NoDial
        /\ hcall.out.err = "" =>
              /\ hcall.network = "tcp"
              /\ hcall.addr \in AcceptedAddrs(hcall)
              /\ IsAllowed(hcall.resolved)
              /\ hcall.out.dial =
                    <<hcall.resolved, ":", SplitHostPort(hcall.addr).port>>
              /\ hcall.out.dial[1] \notin HostNames
        /\ hcall.addr \notin AcceptedAddrs(hcall) => hcall.out.dial = NoDial

C12_Witness ==
    /\ hcall.made
    /\ hcall.url = [Scheme |-> "http", Host |-> <<"rebind.example">>]
    /\ hcall.addr = <<"rebind.example", ":", "443">>
    /\ hcall.out.dial = <<"93.184.216.34", ":", "443">>

(***************************************************************************)
(* Properties of a redirected doHttpGet                                    *)
(***************************************************************************)
\* doHttpGet of http://host/ (no port in the URL, certificates verified) was
\* redirected once, to https://host/, and the client has dialed for the
\* redirect.
RedirectedToHttps ==
    /\ durl.Scheme = "http" /\ ~HasColon(durl.Host)
    /\ redirects = 1
    /\ dhop = [Scheme |-> "https", Host |-> durl.Host]
    /\ dpc \in {"connected", "done"}

DialErrors ==
    {"invalid network: expected tcp", "unsafe destination",
     "unexpected scheme: cannot determine port",
     "unexpected host: not safe to complete request"}

\* C13 as stated: the redirect is refused when the address resolved for its
\* dial is not the one validated for the first dial, so the two sockets of a
\* redirected fetch have one address.
C13_RedirectPinnedToPrimaryAddress ==
    RedirectedToHttps /\ ~unsafeCerts =>
        \A c1, c2 \in conns : c1.ip = c2.ip

\* C13, amended: the redirected dial is made whenever the address resolved
\* for it is allowed, be it the address of the first dial or another; with
\* certificates verified it is refused only for an address the policy
\* denies, and with UnsafeCertificates it is never refused.
C13_RedirectFollowedWhenAllowed ==
    RedirectedToHttps =>
        /\ dres \in DialErrors => ~unsafeCerts /\ dres = "unsafe destination"
        /\ ~unsafeCerts => \A cn \in conns : cn.checked /\ IsAllowed(cn.ip)
        /\ dres \notin DialErrors =>
              /\ \E cn \in conns : cn.to = <<cn.ip, ":", "80">>
              /\ \E cn \in conns : cn.to = <<cn.ip, ":", "443">>
              /\ Cardinality(conns) = 2

C13_Witness ==
    /\ RedirectedToHttps /\ ~unsafeCerts
    /\ dpc = "done" /\ dres = "response"
    /\ conns = {[to |-> <<"93.184.216.34", ":", "80">>, ip |-> "93.184.216.34",
                  via |-> "DialContext", checked |-> TRUE],
                 [to |-> <<"93.184.216.35", ":", "443">>, ip |-> "93.184.216.35",
                  via |-> "DialContext", checked |-> TRUE]}

(***************************************************************************)
(* Properties of downloadRawContent                                        *)
(***************************************************************************)
\* doHttpGet returned a response to the call, not an error.
GotResponse == praw.made /\ praw.resp.err = ""

DeclaredTooLarge == praw.resp.ContentLength > praw.max

\* A returned stream yields at most the maximum, however long the body is.
StreamWithinMaximum ==
    praw.out.err = "" =>
        /\ praw.out.reader # NilReader
        /\ Len(praw.out.reader.data) <= praw.max
        /\ phtml.made => phtml.read <= praw.max /\ Len(phtml.html) <= praw.max

\* C14 as stated: with a maximum configured, every response that declares
\* a longer Content-Length gets the too-large error and none of its body is
\* read; any other response's stream yields at most the maximum.
C14_TooLargeForEveryResponse ==
    GotResponse /\ praw.max > 0 =>
        IF DeclaredTooLarge
        THEN /\ praw.out.err = "ErrMediaTooLarge"
             /\ praw.out.reader = NilReader
             /\ phtml.made => phtml.read = 0
        ELSE StreamWithinMaximum

\* C14, amended: the same for the responses with status 200; a response
\* with another status gets the transfer error whatever length it declares,
\* and none of its body is read either.
C14_TooLargeForEvery200Response ==
    GotResponse /\ praw.max > 0 =>
        IF praw.resp.StatusCode # 200
        THEN /\ praw.out.err = "error during transfer"
             /\ praw.out.reader = NilReader
             /\ phtml.made => phtml.read = 0
        ELSE IF DeclaredTooLarge
        THEN /\ praw.out.err = "ErrMediaTooLarge"
             /\ praw.out.reader = NilReader
             /\ phtml.made => phtml.read = 0
        ELSE StreamWithinMaximum

\* An undeclared length, a body longer than the maximum, and a stream that
\* was read to its end.
C14_Witness ==
    /\ GotResponse /\ praw.max > 0 /\ praw.resp.StatusCode = 200
    /\ praw.resp.ContentLength = -1 /\ Len(praw.resp.Body) > praw.max
    /\ phtml.made /\ phtml.err = "" /\ phtml.read = praw.max

\* The response is a 200 within the size ceiling.
WithinCeiling ==
    /\ GotResponse /\ praw.resp.StatusCode = 200
    /\ ~(praw.max > 0 /\ praw.resp.ContentLength >= 0 /\ DeclaredTooLarge)

MatchesSome(supportedTypes, contentType) ==
    \E i \in 1..Len(supportedTypes) : Glob(supportedTypes[i], contentType)

\* C15: a 200 response within the size ceiling is accepted when its
\* Content-Type matches at least one of the patterns, and gets the
\* unsupported-content-type error when it matches none.
C15_AcceptsWhenSomePatternMatches ==
    WithinCeiling =>
        IF MatchesSome(praw.supportedTypes, praw.resp.ContentType)
        THEN praw.out.err = ""
        ELSE praw.out.err = "ErrPreviewUnsupported"

\* C20: whenever downloadRawContent returns no error, whatever the maximum
\* configured, its stream is a reader, which downloadHtmlContent reads and
\* closes.
C20_ReturnedReaderUsable ==
    praw.made /\ praw.out.err = "" =>
        /\ praw.out.reader # NilReader
        /\ phtml.made => ~phtml.panic

(***************************************************************************)
(* Properties of the registry of downloads                                 *)
(***************************************************************************)
\* C16: a key has an entry in the registry exactly while a fetch of it is
\* under way.  When the fetch ends its result goes to the waiters and the
\* entry is removed in the same step; a request made later is not handed a
\* result that exists already: it waits for a fetch that has not ended, one
\* that it starts itself when the key has no entry.
C16_EntryLivesWithItsFetch ==
    [][\A k \in RemoteKeys :
          /\ registry[k].present <=> fetching[k] = 1
          /\ ~registry[k].present => registry[k].waiters = {}
          /\ Len(outcomes'[k]) # Len(outcomes[k]) =>
                /\ registry[k].present /\ registry'[k] = NoEntry
                /\ \A c \in registry[k].waiters :
                      hchan'[c] = outcomes'[k][Len(outcomes'[k])]
          /\ \A c \in Callers :
                hpc[c] = "idle" /\ hpc'[c] = "waiting" /\ hkey'[c] = k =>
                    /\ registry'[k].present /\ c \in registry'[k].waiters
                    /\ hchan'[c] = NoResult
                    /\ joined'[c] = Len(outcomes[k]) + 1
                    /\ IF registry[k].present
                       THEN started'[k] = started[k]
                       ELSE started'[k] = started[k] + 1 /\ fetching'[k] = 1]_vars

\* A fetch of a key ended and its entry was removed; a request made after
\* that started the key's second fetch, which is under way.
C16_Witness ==
    \E k \in RemoteKeys : \E c, d \in Callers :
        /\ Len(outcomes[k]) = 1 /\ started[k] = 2 /\ fetching[k] = 1
        /\ hkey[c] = k /\ hpc[c] = "done" /\ joined[c] = 1
        /\ hkey[d] = k /\ hpc[d] = "waiting" /\ joined[d] = 2
        /\ registry[k].waiters = {d}

\* C17: the hook has an alternate port only when the resolver returned no
\* port and the port was taken from the URL's scheme (http: 80, alternate
\* 443; https: 443, alternate 80); an address asked for with a port of its
\* own is accepted only as the expected address, with that port; and with no
\* port known and a scheme that is neither http nor https the hook fails
\* with the cannot-determine-port error.
C17_AlternateOnlyForInferredPort ==
    hcall.made /\ hcall.network = "tcp" /\ hcall.safe.err = "" =>
        LET ports == InferPorts(hcall.url.Scheme, hcall.safe.port)
            addrPort == SplitHostPort(hcall.addr).port
        IN /\ ports.altPort # "" =>
                 /\ hcall.safe.port = ""
                 /\ \/ /\ hcall.url.Scheme = "http"
                       /\ ports.safePort = "80" /\ ports.altPort = "443"
                    \/ /\ hcall.url.Scheme = "https"
                       /\ ports.safePort = "443" /\ ports.altPort = "80"
           /\ addrPort # "" =>
                 /\ ports.altPort = "" /\ ports.safePort = addrPort
                 /\ hcall.out.dial # NoDial =>
                       hcall.addr = HostColonPort(hcall.url.Host, addrPort)
           /\ hcall.safe.port = "" /\ hcall.url.Scheme \notin {"http", "https"} =>
                 /\ hcall.out.dial = NoDial
                 /\ hcall.out.err = "unexpected scheme: cannot determine port"
           /\ hcall.out.err = "unexpected scheme: cannot determine port" =>
                 hcall.safe.port = "" /\ hcall.url.Scheme \notin {"http", "https"}

\* The hook was asked for an address without a port under an https URL: it
\* expected 443 with 80 as the alternate.
C17_Witness ==
    /\ hcall.made /\ hcall.network = "tcp" /\ hcall.safe.err = ""
    /\ hcall.addr = <<"good.example">> /\ hcall.safe.port = ""
    /\ hcall.url = [Scheme |-> "https", Host |-> <<"good.example">>]
    /\ InferPorts(hcall.url.Scheme, hcall.safe.port) =
           [safePort |-> "443", altPort |-> "80", err |-> ""]
    /\ hcall.out.dial = NoDial

(***************************************************************************)
(* Properties of StoreMedia's scan of the duplicates                       *)
(***************************************************************************)
\* The records of the call's bytes that the table held when the call was
\* made, in lookup order.
DuplicatesAtCall(p) == GetByHash(req[p].storeAtCall, Sha256(req[p].contents))

\* The call went past its lookup, and the table held records of its bytes.
ScannedDuplicates(p) ==
    /\ Done(p) /\ ret[p].err \notin {"persist", "hash", "getByHash"}
    /\ Len(DuplicatesAtCall(p)) > 0

\* C18: with records of the ingested bytes in the table, a call with a
\* supplied media ID returns a stored record only if that record has the
\* call's origin and media ID; a call with a generated media ID returns the
\* first of the records that has its origin; either way the record is returned as
\* stored and none is inserted.  A call that no record matches inserts (if
\* the table accepts it) a record with the hash, size and location of the
\* last of the records and the origin, media ID, user ID, content type and
\* file name of the call.
C18_FirstMatchElseRelabelLast ==
    \A p \in Procs :
        ScannedDuplicates(p) =>
            LET recs == DuplicatesAtCall(p)
                old == {req[p].storeAtCall[i] : i \in 1..Len(req[p].storeAtCall)}
                matches == {i \in 1..Len(recs) :
                               /\ recs[i].Origin = req[p].host
                               /\ req[p].isGeneratedId \/ recs[i].MediaId = req[p].mediaId}
                last == recs[Len(recs)]
            IN IF matches # {}
               THEN /\ \E i \in matches :
                          /\ \A j \in matches : i <= j
                          /\ ret[p] = Ok(recs[i])
                    /\ media[p] \notin Rows \ old
               ELSE IF ret[p].err = ""
               THEN /\ ret[p].media \in Rows \ old
                    /\ ret[p].media =
                          [Origin |-> req[p].host, MediaId |-> req[p].mediaId,
                           UploadName |-> req[p].filename,
                           ContentType |-> req[p].contentType,
                           UserId |-> req[p].userId,
                           Sha256Hash |-> last.Sha256Hash,
                           SizeBytes |-> last.SizeBytes,
                           Location |-> last.Location,
                           CreationTs |-> ret[p].media.CreationTs]
               ELSE /\ ret[p].err \in {"duplicate", "insert"}
                    /\ media[p] \notin Rows \ old

\* Onto a table with two records of the bytes under one origin, the second
\* with a file of its own: a call with a generated media ID under that origin
\* got the first, and a call under the other origin got a new record over the
\* file of the second.
C18_Witness ==
    /\ Len(store) = 3 /\ store[1] = SeedRecord /\ store[2] = SeedRecordRaced
    /\ \E p, q \in Procs :
          /\ Succeeded(p) /\ req[p].isGeneratedId /\ req[p].host = "a.org"
          /\ ret[p].media = SeedRecord
          /\ Succeeded(q) /\ req[q].host = "b.org"
          /\ ret[q].media = store[3]
          /\ ret[q].media.Location = RacedLocation
          /\ ret[q].media.UserId # SeedRecordRaced.UserId

(***************************************************************************)
(* Properties of IsTooLarge                                                *)
(***************************************************************************)
\* C19: with no maximum (zero or negative) nothing is too large.  With one,
\* a content length that is known (not negative) is too large exactly when
\* it exceeds the maximum, whatever the header; with none known, a header
\* that does not parse is too large, one that parses is too large exactly
\* when the number exceeds the maximum, and without a header nothing is.  A
\* length equal to the maximum is not too large.
C19_TooLargeOnlyAboveMaximum ==
    tcall.made =>
        LET parsed == ParseInt(tcall.header)
        IN /\ tcall.max <= 0 => ~tcall.result
           /\ tcall.max > 0 /\ tcall.contentLength >= 0 =>
                 (tcall.result <=> tcall.contentLength > tcall.max)
           /\ tcall.max > 0 /\ tcall.contentLength < 0 /\ tcall.header # <<>> =>
                 (tcall.result <=> parsed.err # "" \/ parsed.val > tcall.max)
           /\ tcall.max > 0 /\ tcall.contentLength < 0 /\ tcall.header = <<>> =>
                 ~tcall.result
           /\ tcall.contentLength = tcall.max => ~tcall.result
           /\ tcall.contentLength < 0 /\ parsed.err = "" /\ parsed.val = tcall.max =>
                 ~tcall.result

\* No content length known, and a header that holds the maximum itself.
C19_Witness ==
    /\ tcall.made /\ tcall.max = 10 /\ tcall.contentLength = -1
    /\ tcall.header = <<"1", "0">> /\ ~tcall.result

====
